---------------------------- MODULE Spec2Model ----------------------------
(***************************************************************************)
(* A model of src/app.py: the NeuralFieldExplorer engine (constructor,     *)
(* update_fields, calculate_energy_flow, update_history,                   *)
(* create_3d_visualization) and the Streamlit driver main().               *)
(*                                                                         *)
(* Numbers.  The program computes in float64.  The model computes in       *)
(* fixed point: a field value x is the integer x * Scale, a product is     *)
(* rounded (floor) back to that unit, as every float operation rounds its  *)
(* result.  A normalised energy-flow value is kept as the exact fraction   *)
(* <<numerator, denominator>> so that the 1e-8 of the denominator is not   *)
(* rounded away.                                                           *)
(*                                                                         *)
(* Grids.  An N x N array is a function on Cells(N), indexed from 0 as in  *)
(* the source; the (T, N, N) history is a sequence of T grids, so Python's *)
(* history[i] is energy_flow_history[i + 1] here.                          *)
(***************************************************************************)
EXTENDS Integers, Sequences, FiniteSets

VARIABLES
    pc,                   \* position of the script run in main()
    running,              \* the 'Run Simulation' checkbox read by this run
    engine,               \* TRUE when a NeuralFieldExplorer object exists
    size, time_depth,     \* self.size, self.time_depth
    u, v, phi,            \* self.u, self.v, self.phi
    energy_flow_history,  \* self.energy_flow_history
    energy_flow,          \* the value last returned by calculate_energy_flow
    surfaces,             \* the value last returned by create_3d_visualization
    frame_count,          \* st.session_state.frame_count
    rng,                  \* state of numpy's process-wide random generator
    laplacian,            \* local of update_fields, as last computed
    quantum_input,        \* local of update_fields, as last drawn
    err,                  \* exception raised by the last call, or "none"
    last,                 \* name of the last operation that ran
    steps,                \* history variable: completed update_fields calls
    pushed,               \* history variable: frames given to update_history
    computed_at,          \* history variable: value of steps when energy_flow
                          \* was computed, -1 before
    other                 \* a second, independent run (fields, rng, steps)

vars == <<pc, running, engine, size, time_depth, u, v, phi,
          energy_flow_history, energy_flow, surfaces, frame_count, rng,
          laplacian, quantum_input, err, last, steps, pushed,
          computed_at, other>>

-----------------------------------------------------------------------------
(* Bounds of the model *)

MaxSize == 3
MaxDepth == 3
MaxSteps == 3
MaxPushes == 3
NumSeeds == 3

SizeInputs == -1 .. MaxSize
DepthInputs == -1 .. MaxDepth
Seeds == {5 * k : k \in 0 .. (NumSeeds - 1)}

-----------------------------------------------------------------------------
(* Fixed-point arithmetic *)

Scale == 1000

Mul(x, y) == (x * y) \div Scale

Div(x, y) == (x * Scale) \div y

Cube(x) == Mul(Mul(x, x), x)

RECURSIVE SqrtBetween(_, _, _)
SqrtBetween(n, lo, hi) ==
    IF lo >= hi THEN lo
    ELSE LET mid == (lo + hi + 1) \div 2
         IN  IF mid * mid <= n THEN SqrtBetween(n, mid, hi)
                               ELSE SqrtBetween(n, lo, mid - 1)

\* np.sqrt of a sum of two squares of fixed-point values, rounded down
Sqrt(n) == SqrtBetween(n, 0, 46340)

-----------------------------------------------------------------------------
(* Arrays *)

Cells(N) == (0 .. (N - 1)) \X (0 .. (N - 1))

\* np.zeros((N, N))
Zeros(N) == [ij \in Cells(N) |-> 0]

\* a zero of the (T, N, N) history: the fraction 0/1
ZeroFrame(N) == [ij \in Cells(N) |-> <<0, 1>>]

\* np.zeros((T, N, N))
ZeroFrames(T, N) == [i \in 1 .. T |-> ZeroFrame(N)]

NoGrid == Zeros(0)

\* An array expression of numpy is computed once, into a new array: Array(f)
\* is f, with its values computed and stored
Array(f) == IF f = f THEN f ELSE f

\* Roll with the bug of shifting without wrapping: zeros come in at the edge
RollNoWrap(g, shift, axis, N) ==
    Array([ij \in Cells(N) |->
        LET i == IF axis = 0 THEN ij[1] - shift ELSE ij[1]
            j == IF axis = 0 THEN ij[2] ELSE ij[2] - shift
        IN  IF i \in 0 .. (N - 1) /\ j \in 0 .. (N - 1)
              THEN g[<<i, j>>]
              ELSE 0])

\* np.roll(g, shift, axis) of an N x N array: element i moves to i + shift,
\* wrapping around
Roll(g, shift, axis, N) ==
    Array([ij \in Cells(N) |->
        IF axis = 0 THEN g[<<(ij[1] - shift) % N, ij[2]>>]
                    ELSE g[<<ij[1], (ij[2] - shift) % N>>]])

\* RollFrames with the bug of rolling the other way
RollFramesBackwards(h, shift) ==
    [i \in 1 .. Len(h) |-> h[(((i - 1) + shift) % Len(h)) + 1]]

\* np.roll(h, shift, axis=0) of the (T, N, N) history
RollFrames(h, shift) ==
    LET T == Len(h)
    IN  [i \in 1 .. T |-> h[(((i - 1) - shift) % T) + 1]]

GridMin(g, N) == CHOOSE x \in {g[ij] : ij \in Cells(N)} :
                     \A kl \in Cells(N) : x <= g[kl]

GridMax(g, N) == CHOOSE x \in {g[ij] : ij \in Cells(N)} :
                     \A kl \in Cells(N) : x >= g[kl]

-----------------------------------------------------------------------------
(* Physics parameters (__init__) *)

dt == Scale \div 10

dx == Scale

dy == Scale

c == Scale

alpha == Scale \div 20

beta == Scale \div 50

\* the central disturbance, 2.0
Impulse == 2 * Scale

-----------------------------------------------------------------------------
(* numpy's process-wide random generator.  np.random.normal is a           *)
(* deterministic function of the generator's state, and which state the    *)
(* process starts in is not fixed by the program.  A generator is a fixed  *)
(* periodic stream of draws and its state a position in the stream; a draw *)
(* of normal(0, 0.1) is a whole number of standard deviations.  The stream *)
(* begins with a run of zeros, so that a step without forcing occurs.      *)

NormalStream ==
    << 0,  0,  0,  0,  0,  0,  0,  0,  0,  0,  0,  0,  0,  0,  0,  0,
       0, -1, -1,  1,  0,  2,  2, -1, -1,  1,  0, -1,  0,  2, -2, -1,
       1,  0,  0,  2,  1,  1,  0, -1,  0,  0, -1, -2, -2,  0, -2,  0,
      -1,  1,  0,  2,  1, -1,  0,  1, -1,  0,  0,  1,  0,  0,  0,  0>>

RngPeriod == Len(NormalStream)

RngNext(r) == (r + 1) % RngPeriod

RECURSIVE RngAfter(_, _)
RngAfter(r, n) == IF n = 0 THEN r ELSE RngAfter(RngNext(r), n - 1)

\* one draw of np.random.normal(0, 0.1): the value at stream position r
NormalValue(r) == NormalStream[r + 1] * (Scale \div 10)

\* np.random.normal(0, 0.1, (N, N)) from generator state r: the cells are
\* drawn in row-major order
RandomNormal(r, N) ==
    Array([ij \in Cells(N) |->
        NormalValue(RngAfter(r, ij[1] * N + ij[2] + 1))])

-----------------------------------------------------------------------------
(* update_fields *)

Laplacian(g, N) ==
    LET up    == Roll(g, 1, 0, N)
        down  == Roll(g, -1, 0, N)
        left  == Roll(g, 1, 1, N)
        right == Roll(g, -1, 1, N)
    IN  Array([ij \in Cells(N) |->
            Div(-4 * g[ij] + up[ij] + down[ij] + left[ij] + right[ij],
                Mul(dx, dy))])

Acceleration(uu, vv, lap, quantum, classical, N) ==
    Array([ij \in Cells(N) |->
        Mul(Mul(c, c), lap[ij]) - Mul(beta, vv[ij]) - Mul(alpha, Cube(uu[ij]))
          + quantum[ij] + classical[ij]])

VNew(vv, a, N) == Array([ij \in Cells(N) |-> vv[ij] + Mul(a[ij], dt)])

\* UNew with the bug of an explicit Euler step: the old velocity is used
UNewOldVelocity(uu, v_new, N) ==
    Array([ij \in Cells(N) |-> uu[ij] + Mul(v[ij], dt)])

UNew(uu, v_new, N) ==
    Array([ij \in Cells(N) |-> uu[ij] + Mul(v_new[ij], dt)])

\* PhiNew with the bug of accumulating the old velocity
PhiNewOldVelocity(pp, v_new, N) ==
    Array([ij \in Cells(N) |-> pp[ij] + Mul(v[ij], dt)])

PhiNew(pp, v_new, N) ==
    Array([ij \in Cells(N) |-> pp[ij] + Mul(v_new[ij], dt)])

\* the body of update_fields on fields uu, vv, pp with generator state r
StepFields(uu, vv, pp, r, N) ==
    LET lap       == Laplacian(uu, N)
        quantum   == RandomNormal(r, N)
        classical == Zeros(N)
        a         == Acceleration(uu, vv, lap, quantum, classical, N)
        v_new     == VNew(vv, a, N)
        u_new     == UNew(uu, v_new, N)
        phi_new   == PhiNew(pp, v_new, N)
    IN  [u |-> u_new, v |-> v_new, phi |-> phi_new,
         laplacian |-> lap, quantum_input |-> quantum,
         rng |-> RngAfter(r, N * N)]

-----------------------------------------------------------------------------
(* calculate_energy_flow *)

\* the cell ij with its coordinate along axis replaced by p
Along(ij, axis, p) == IF axis = 0 THEN <<p, ij[2]>> ELSE <<ij[1], p>>

\* np.gradient(g, axis) of an N x N array, N >= 2: centred differences
\* inside, one-sided differences at the two ends
Gradient(g, axis, N) == Array(
    [ij \in Cells(N) |->
        LET p == ij[axis + 1]
        IN  IF p = 0
              THEN g[Along(ij, axis, 1)] - g[Along(ij, axis, 0)]
            ELSE IF p = N - 1
              THEN g[Along(ij, axis, N - 1)] - g[Along(ij, axis, N - 2)]
            ELSE (g[Along(ij, axis, p + 1)]
                    - g[Along(ij, axis, p - 1)]) \div 2])

\* np.sqrt(grad_x**2 + grad_y**2)
Magnitude(gx, gy, N) ==
    Array([ij \in Cells(N) |-> Sqrt(gx[ij] * gx[ij] + gy[ij] * gy[ij])])

\* gaussian_filter(sigma=1): the kernel reaches int(4.0 * sigma + 0.5) = 4
\* cells each way; its weights exp(-k^2 / 2) / sum, in units of 1/WeightScale
KernelRadius == 4

WeightScale == 10000

GaussWeights == <<3989, 2420, 540, 44, 1>>

Abs(k) == IF k < 0 THEN -k ELSE k

\* the 'reflect' boundary mode: (d c b a | a b c d | d c b a)
Reflect(i, N) ==
    LET m == i % (2 * N)
    IN  IF m < N THEN m ELSE 2 * N - 1 - m

RECURSIVE WeightedSum(_, _, _, _, _)
WeightedSum(g, ij, axis, N, k) ==
    IF k > KernelRadius THEN 0
    ELSE GaussWeights[Abs(k) + 1]
           * g[Along(ij, axis, Reflect(ij[axis + 1] + k, N))]
         + WeightedSum(g, ij, axis, N, k + 1)

Correlate1d(g, axis, N) ==
    Array([ij \in Cells(N) |->
        WeightedSum(g, ij, axis, N, -KernelRadius) \div WeightScale])

GaussianFilter(g, N) == Correlate1d(Correlate1d(g, 0, N), 1, N)

\* 1 / 1e-8
InvEps == 100000000

\* (m - m.min()) / (m.max() - m.min() + 1e-8), each value as the fraction
\* <<numerator, denominator>> in units of 1e-8
Normalize(m, N) ==
    LET lo == GridMin(m, N)
        hi == GridMax(m, N)
        k  == InvEps \div Scale
    IN  Array([ij \in Cells(N) |-> <<(m[ij] - lo) * k, (hi - lo) * k + 1>>])

\* the value calculate_energy_flow returns for displacement uu, N >= 2
EnergyFlow(uu, N) ==
    LET grad_x == Gradient(uu, 0, N)
        grad_y == Gradient(uu, 1, N)
        m      == GaussianFilter(Magnitude(grad_x, grad_y, N), N)
    IN  Normalize(m, N)

-----------------------------------------------------------------------------
(* The methods of NeuralFieldExplorer.  Each is the whole call; a call     *)
(* that raises leaves in err the exception's name.                         *)

driverVars == <<pc, running, frame_count>>

\* NeuralFieldExplorer(sz, td).  np.zeros raises ValueError on a negative
\* dimension; the assignment to u[size//2, size//2] raises IndexError on
\* an empty array; nothing else checks the arguments.
construct(sz, td) ==
    /\ ~engine
    /\ last' = "construct"
    /\ IF sz < 0 \/ td < 0
         THEN /\ err' = "ValueError"
              /\ UNCHANGED <<engine, size, time_depth, u, v, phi,
                             energy_flow_history, other>>
       ELSE IF sz = 0
         THEN /\ err' = "IndexError"
              /\ UNCHANGED <<engine, size, time_depth, u, v, phi,
                             energy_flow_history, other>>
       ELSE /\ err' = "none"
            /\ engine' = TRUE
            /\ size' = sz
            /\ time_depth' = td
            /\ energy_flow_history' = ZeroFrames(td, sz)
            /\ u' = [Zeros(sz) EXCEPT ![<<sz \div 2, sz \div 2>>] = Impulse]
            /\ v' = Zeros(sz)
            /\ phi' = Zeros(sz)
            /\ other' = [other EXCEPT
                           !.u = [Zeros(sz) EXCEPT
                                    ![<<sz \div 2, sz \div 2>>] = Impulse],
                           !.v = Zeros(sz),
                           !.phi = Zeros(sz)]
    /\ UNCHANGED <<energy_flow, surfaces, rng, laplacian, quantum_input,
                   steps, pushed, computed_at>>

update_fields ==
    /\ engine
    /\ steps < MaxSteps
    /\ LET new == StepFields(u, v, phi, rng, size)
       IN  /\ u' = new.u
           /\ v' = new.v
           /\ phi' = new.phi
           /\ laplacian' = new.laplacian
           /\ quantum_input' = new.quantum_input
           /\ rng' = new.rng
    /\ steps' = steps + 1
    /\ err' = "none"
    /\ last' = "update_fields"
    /\ UNCHANGED <<engine, size, time_depth, energy_flow_history, energy_flow,
                   surfaces, pushed, computed_at, other>>

\* calculate_energy_flow with the bug of smoothing self.u in place
calculate_energy_flow_in_place ==
    /\ engine
    /\ last' = "calculate_energy_flow"
    /\ IF size < 2
         THEN /\ err' = "ValueError"
              /\ UNCHANGED <<u, energy_flow, computed_at>>
         ELSE /\ err' = "none"
              /\ u' = GaussianFilter(u, size)
              /\ energy_flow' = EnergyFlow(u', size)
              /\ computed_at' = steps
    /\ UNCHANGED <<engine, size, time_depth, v, phi, energy_flow_history,
                   surfaces, rng, laplacian, quantum_input, steps, pushed,
                   other>>

\* calculate_energy_flow with the bug of drawing from the shared generator
calculate_energy_flow_draws ==
    /\ engine
    /\ last' = "calculate_energy_flow"
    /\ IF size < 2
         THEN /\ err' = "ValueError"
              /\ UNCHANGED <<energy_flow, computed_at, rng>>
         ELSE /\ err' = "none"
              /\ energy_flow' = EnergyFlow(u, size)
              /\ computed_at' = steps
              /\ rng' = RngNext(rng)
    /\ UNCHANGED <<engine, size, time_depth, u, v, phi, energy_flow_history,
                   surfaces, laplacian, quantum_input, steps, pushed, other>>

\* np.gradient raises ValueError on an axis shorter than 2
calculate_energy_flow ==
    /\ engine
    /\ last' = "calculate_energy_flow"
    /\ IF size < 2
         THEN /\ err' = "ValueError"
              /\ UNCHANGED <<energy_flow, computed_at>>
         ELSE /\ err' = "none"
              /\ energy_flow' = EnergyFlow(u, size)
              /\ computed_at' = steps
    /\ UNCHANGED <<engine, size, time_depth, u, v, phi, energy_flow_history,
                   surfaces, rng, laplacian, quantum_input, steps, pushed,
                   other>>

\* update_history with the bug of overwriting the newest frame without
\* rolling
update_history_overwrites(frame) ==
    /\ engine
    /\ Len(pushed) < MaxPushes
    /\ last' = "update_history"
    /\ pushed' = Append(pushed, frame)
    /\ IF time_depth = 0
         THEN /\ UNCHANGED energy_flow_history
              /\ err' = "IndexError"
         ELSE /\ energy_flow_history' =
                     [energy_flow_history EXCEPT ![time_depth] = frame]
              /\ err' = "none"
    /\ UNCHANGED <<engine, size, time_depth, u, v, phi, energy_flow, surfaces,
                   rng, laplacian, quantum_input, steps, computed_at, other>>

\* the assignment to history[-1] raises IndexError on an empty history
update_history(frame) ==
    /\ engine
    /\ Len(pushed) < MaxPushes
    /\ last' = "update_history"
    /\ pushed' = Append(pushed, frame)
    /\ LET rolled == RollFrames(energy_flow_history, -1)
       IN  IF time_depth = 0
             THEN /\ energy_flow_history' = rolled
                  /\ err' = "IndexError"
             ELSE /\ energy_flow_history' =
                         [rolled EXCEPT ![time_depth] = frame]
                  /\ err' = "none"
    /\ UNCHANGED <<engine, size, time_depth, u, v, phi, energy_flow, surfaces,
                   rng, laplacian, quantum_input, steps, computed_at, other>>

\* one surface for every second time slice, coloured by history[i]
create_3d_visualization ==
    /\ engine
    /\ last' = "create_3d_visualization"
    /\ surfaces' = [k \in 1 .. ((time_depth + 1) \div 2) |->
                       energy_flow_history[2 * (k - 1) + 1]]
    /\ err' = "none"
    /\ UNCHANGED <<engine, size, time_depth, u, v, phi, energy_flow_history,
                   energy_flow, rng, laplacian, quantum_input, steps, pushed,
                   computed_at, other>>

-----------------------------------------------------------------------------
(* main(): one run of the Streamlit script.  st.session_state (the engine  *)
(* and frame_count) outlives the run; Streamlit ends a run and starts the  *)
(* next one only where the script calls into st (here the plotly_chart     *)
(* calls that follow create_3d_visualization), or after the run has ended. *)

engineVars == <<engine, size, time_depth, u, v, phi, energy_flow_history,
                energy_flow, surfaces, rng, laplacian, quantum_input, err,
                last, steps, pushed, computed_at, other>>

\* lines 89-91 and 96 on a new session: build the engine; the checkbox has
\* its default value
main_new_session ==
    /\ pc = "start"
    /\ ~engine
    /\ \E sz \in SizeInputs, td \in DepthInputs : construct(sz, td)
    /\ IF err' = "none"
         THEN pc' = "update" /\ running' = TRUE /\ frame_count' = 0
         ELSE pc' = "crashed" /\ UNCHANGED <<running, frame_count>>

\* lines 89 and 96-107 on a rerun: the engine is kept, the checkbox is as
\* the user left it
main_rerun_session ==
    /\ pc = "start"
    /\ engine
    /\ \E r \in BOOLEAN :
          /\ running' = r
          /\ pc' = IF r THEN "update" ELSE "stopped"
    /\ UNCHANGED frame_count
    /\ UNCHANGED engineVars

\* line 109
main_update_fields ==
    /\ pc = "update"
    /\ update_fields
    /\ pc' = "calc"
    /\ UNCHANGED <<running, frame_count>>

\* line 110
main_calculate_energy_flow ==
    /\ pc = "calc"
    /\ calculate_energy_flow
    /\ pc' = IF err' = "none" THEN "push" ELSE "crashed"
    /\ UNCHANGED <<running, frame_count>>

\* line 111
main_update_history ==
    /\ pc = "push"
    /\ update_history(energy_flow)
    /\ pc' = IF err' = "none" THEN "viz" ELSE "crashed"
    /\ UNCHANGED <<running, frame_count>>

\* line 114
main_create_3d_visualization ==
    /\ pc = "viz"
    /\ create_3d_visualization
    /\ pc' = "display"
    /\ UNCHANGED <<running, frame_count>>

\* lines 117-155: the figures are shown (the heatmap shows the local
\* energy_flow), the run sleeps, counts the frame and loops
main_display ==
    /\ pc = "display"
    /\ frame_count' = frame_count + 1
    /\ pc' = "update"
    /\ UNCHANGED running
    /\ UNCHANGED engineVars

\* main_rerun with the bug of a run being cut off anywhere in the loop
main_rerun_anywhere ==
    /\ pc \in {"calc", "push", "viz", "display", "stopped", "crashed"}
    /\ pc' = "start"
    /\ UNCHANGED <<running, frame_count>>
    /\ UNCHANGED engineVars

\* Streamlit starts the script again
main_rerun ==
    /\ pc \in {"display", "stopped", "crashed"}
    /\ pc' = "start"
    /\ UNCHANGED <<running, frame_count>>
    /\ UNCHANGED engineVars

-----------------------------------------------------------------------------
(* A caller of the engine that makes the calls in any order *)

call_construct ==
    /\ \E sz \in SizeInputs, td \in DepthInputs : construct(sz, td)
    /\ UNCHANGED driverVars

call_update_fields == update_fields /\ UNCHANGED driverVars

call_calculate_energy_flow == calculate_energy_flow /\ UNCHANGED driverVars

\* the caller passes on a frame it got from calculate_energy_flow
call_update_history ==
    /\ computed_at >= 0
    /\ update_history(energy_flow)
    /\ UNCHANGED driverVars

\* update_fields in the second run, a process of its own whose generator
\* started from the same seed
other_update_fields ==
    /\ engine
    /\ other.steps < MaxSteps
    /\ LET new == StepFields(other.u, other.v, other.phi, other.rng, size)
       IN  other' = [u |-> new.u, v |-> new.v, phi |-> new.phi,
                     rng |-> new.rng, steps |-> other.steps + 1]
    /\ UNCHANGED <<engine, size, time_depth, u, v, phi, energy_flow_history,
                   energy_flow, surfaces, rng, laplacian, quantum_input, err,
                   last, steps, pushed, computed_at>>
    /\ UNCHANGED driverVars

-----------------------------------------------------------------------------
(* Specifications *)

Init ==
    /\ pc = "start"
    /\ running = TRUE
    /\ engine = FALSE
    /\ size = 0
    /\ time_depth = 0
    /\ u = NoGrid
    /\ v = NoGrid
    /\ phi = NoGrid
    /\ energy_flow_history = <<>>
    /\ energy_flow = NoGrid
    /\ surfaces = <<>>
    /\ frame_count = 0
    /\ rng \in Seeds
    /\ laplacian = NoGrid
    /\ quantum_input = NoGrid
    /\ err = "none"
    /\ last = "none"
    /\ steps = 0
    /\ pushed = <<>>
    /\ computed_at = -1
    /\ other = [u |-> NoGrid, v |-> NoGrid, phi |-> NoGrid,
                rng |-> rng, steps |-> 0]

\* the program: main() run and rerun by Streamlit
Next ==
    \/ main_new_session
    \/ main_rerun_session
    \/ main_update_fields
    \/ main_calculate_energy_flow
    \/ main_update_history
    \/ main_create_3d_visualization
    \/ main_display
    \/ main_rerun

Spec == Init /\ [][Next]_vars

\* the engine under any order of calls
NextCalls ==
    \/ call_construct
    \/ call_update_fields
    \/ call_calculate_energy_flow
    \/ call_update_history

SpecCalls == Init /\ [][NextCalls]_vars

\* two runs from the same seed
NextTwoRuns ==
    \/ call_construct
    \/ call_update_fields
    \/ call_calculate_energy_flow
    \/ other_update_fields

SpecTwoRuns == Init /\ [][NextTwoRuns]_vars

-----------------------------------------------------------------------------
(* Properties *)

T == time_depth

K == Len(pushed)

\* the 4-neighbour Laplacian on the torus, written cell by cell
TorusLaplacian(g, N) ==
    [ij \in Cells(N) |->
        Div(g[<<(ij[1] - 1) % N, ij[2]>>] + g[<<(ij[1] + 1) % N, ij[2]>>]
              + g[<<ij[1], (ij[2] - 1) % N>>] + g[<<ij[1], (ij[2] + 1) % N>>]
              - 4 * g[ij],
            Mul(dx, dy))]

\* a step of the behaviour in which update_fields ran
UpdateFieldsStep == steps' = steps + 1

\* C1: once at least T frames have been pushed into a history of depth T,
\* the history holds exactly T frames, the last T pushed, in push order:
\* index 0 the (k - T + 1)-th pushed frame, index T - 1 the k-th.
C1_HistoryIsLastPushes ==
    (engine /\ K >= T) =>
        /\ Len(energy_flow_history) = T
        /\ \A i \in 1 .. T : energy_flow_history[i] = pushed[K - T + i]

C1_Witness ==
    /\ engine
    /\ T >= 2
    /\ K > T
    /\ pushed[K] # pushed[K - 1]
    /\ pushed[K - T] # pushed[K]
    /\ err = "none"

\* C2: construction with size <= 0 or time_depth <= 0 is rejected (with
\* InvalidConfiguration) and produces no engine: every engine there is has
\* a positive size and a positive time_depth.
C2_NonPositiveRejected ==
    engine => (size > 0 /\ time_depth > 0)

\* C3: an update_fields call whose noise is zero everywhere replaces v, u
\* and phi by v + a*dt, u + v'*dt and phi + v'*dt, where a is
\* c^2 * laplacian(u) - beta*v - alpha*u^3 of the fields before the call.
C3_SemiImplicitEuler ==
    [][(UpdateFieldsStep /\ quantum_input' = Zeros(size)) =>
         LET lap == TorusLaplacian(u, size)
             a   == [ij \in Cells(size) |->
                        Mul(Mul(c, c), lap[ij]) - Mul(beta, v[ij])
                          - Mul(alpha, Cube(u[ij]))]
         IN  /\ v' = [ij \in Cells(size) |-> v[ij] + Mul(a[ij], dt)]
             /\ u' = [ij \in Cells(size) |-> u[ij] + Mul(v'[ij], dt)]
             /\ phi' = [ij \in Cells(size) |-> phi[ij] + Mul(v'[ij], dt)]
      ]_vars

C3_Witness ==
    /\ last = "update_fields"
    /\ size >= 2
    /\ steps = 2
    /\ quantum_input = Zeros(size)
    /\ v # Zeros(size)

\* C4: the Laplacian update_fields computes is, at every cell of the N x N
\* grid, the sum of the four neighbours, wrapped around at every edge,
\* minus 4 times the cell, over dx*dy; u is read, not modified, by it (the
\* new u is the old u plus v'*dt).
C4_LaplacianWraps ==
    [][UpdateFieldsStep =>
         /\ laplacian' = TorusLaplacian(u, size)
         /\ u' = [ij \in Cells(size) |-> u[ij] + Mul(v'[ij], dt)]
      ]_vars

C4_Witness ==
    /\ last = "update_fields"
    /\ size = 3
    /\ steps >= 2
    /\ laplacian[<<0, 0>>] # 0
    /\ laplacian[<<2, 1>>] # 0

\* C5: for every valid configuration (size > 0, time_depth > 0)
\* calculate_energy_flow raises no error and returns a grid whose every
\* value is in [0, 1] (the all-zero grid when the smoothed gradient
\* magnitude is flat).
C5_EnergyFlowInUnitRange ==
    (engine /\ size > 0 /\ time_depth > 0
       /\ last = "calculate_energy_flow") =>
        /\ err = "none"
        /\ \A ij \in Cells(size) :
              /\ energy_flow[ij][2] > 0
              /\ 0 <= energy_flow[ij][1]
              /\ energy_flow[ij][1] <= energy_flow[ij][2]

C7_EnergyFlowIsPure ==
    [][/\ last' = "calculate_energy_flow" =>
             /\ UNCHANGED <<u, v, phi, energy_flow_history>>
             /\ computed_at = steps => energy_flow' = energy_flow
       /\ (engine /\ energy_flow_history' # energy_flow_history) =>
             last' = "update_history"
      ]_vars

C7_Witness ==
    /\ last = "calculate_energy_flow"
    /\ err = "none"
    /\ steps >= 1
    /\ computed_at = steps
    /\ K >= 1
    /\ T >= 1
    /\ energy_flow_history[T] = energy_flow
    /\ energy_flow # ZeroFrame(size)

\* C8: wherever main() reads the history or shows the frame, update_fields,
\* calculate_energy_flow and update_history have all run for the current
\* iteration: the newest frame (index T - 1) is the energy flow of the
\* current u, it is the frame shown, and as many frames were pushed as
\* steps were taken.
C8_ReadersSeeCompletedIteration ==
    pc \in {"viz", "display"} =>
        /\ T >= 1
        /\ energy_flow_history[T] = EnergyFlow(u, size)
        /\ energy_flow = energy_flow_history[T]
        /\ K = steps

C8_Witness ==
    /\ pc = "display"
    /\ steps >= 2
    /\ T >= 2
    /\ energy_flow_history[T] # energy_flow_history[T - 1]
    /\ surfaces[1] = energy_flow_history[1]

\* C9: after k < T pushes the history still holds T frames: indices
\* 0 .. T-k-1 are zero frames of the construction and indices T-k .. T-1
\* the k pushed frames, oldest first; each push moves every kept frame one
\* index down and writes the new frame at index T - 1.
C9_PartlyFilledHistory ==
    /\ [](engine /\ K < T =>
            /\ Len(energy_flow_history) = T
            /\ \A i \in 1 .. (T - K) : energy_flow_history[i] = ZeroFrame(size)
            /\ \A i \in 1 .. K : energy_flow_history[T - K + i] = pushed[i])
    /\ [][(K' = K + 1 /\ T >= 1) =>
            /\ \A i \in 1 .. (T - 1) :
                  energy_flow_history'[i] = energy_flow_history[i + 1]
            /\ energy_flow_history'[T] = pushed'[K']
         ]_vars

C9_Witness ==
    /\ engine
    /\ T >= 3
    /\ K = 2
    /\ pushed[1] # pushed[2]
    /\ pushed[1] # ZeroFrame(size)
    /\ pushed[2] # ZeroFrame(size)

\* C10: at every time u - phi is the initial displacement: 2.0 at the cell
\* (size//2, size//2) and 0 at every other cell.
C10_DisplacementMinusPotential ==
    engine =>
        \A ij \in Cells(size) :
            u[ij] - phi[ij] =
                IF ij = <<size \div 2, size \div 2>> THEN 2 * Scale ELSE 0

C10_Witness ==
    /\ engine
    /\ size >= 2
    /\ steps >= 2
    /\ quantum_input # Zeros(size)
    /\ \E ij \in Cells(size) : phi[ij] # 0 /\ ij # <<size \div 2, size \div 2>>

=============================================================================
